---- MODULE Spec2Model ----
(***************************************************************************)
(* Unique code batch generation and lifecycle engine of the If-Found-Lost  *)
(* admin tool: the client service (src/src/services/BatchService.ts) and   *)
(* the callable cloud functions (src/functions/codeGenerator.js) acting on *)
(* the two Firestore collections stickerBatches and stickerCodes.          *)
(*                                                                         *)
(* Strings are sequences of character codes, so that the range scans of    *)
(* the document ids are computed by lexicographic comparison as Firestore  *)
(* computes them.  Every store operation is one atomic step; between two   *)
(* store operations of one task the steps of the other tasks interleave.   *)
(***************************************************************************)
EXTENDS Integers, Sequences, FiniteSets, TLC

(***************************************************************************)
(* Bounds of the exploration.                                              *)
(***************************************************************************)
\* number of createBatch calls (each gets a fresh auto-generated batch id)
MaxBatches == 2
\* number of generation tasks started: the ones createBatch dispatches and
\* the direct calls of the callable generateCodeBatch
MaxRuns == 2
\* number of documents in the collection a caller pages through
MaxDocs == 3
\* number of handleLoginAttempt calls
MaxLogins == 6
\* Math.random() is explored over the first MaxCharIdx character positions
MaxCharIdx == 3
\* number of deleteBatch calls (client service calls and direct calls of the
\* callable deleteBatch)
MaxDeletes == 2
\* number of calls of the callable exportCodes
MaxExports == 1
\* longest random suffix of the runs that explore the format of the codes
MaxCodeLength == 2

(***************************************************************************)
(* Program constants.  The sizes are scaled down (100 -> 1, 500 -> 2,      *)
(* 10000 -> 2) keeping their order: inline chunk < threshold = offloaded   *)
(* chunk, and a scan cap that a prefix can exceed.                         *)
(***************************************************************************)
\* BatchService.ts: const BATCH_SIZE = 100
INLINE_BATCH_SIZE == 1
\* codeGenerator.js: const BATCH_SIZE = 500
BATCH_SIZE == 2
\* BatchService.ts createBatch: if (batchData.quantity <= 500)
INLINE_THRESHOLD == 2
\* BatchService.ts generateUniqueCodesForBatch: limit(10000)
SCAN_LIMIT == 2
\* codeGenerator.js deleteBatchHandler: const chunkSize = 500
chunkSize == 2

\* BatchService.ts: const ALLOWED_CHARS = 'ABCDEFGHJKLMNPQRSTUVWXYZ23456789'
INLINE_ALLOWED_CHARS ==
  << 65, 66, 67, 68, 69, 70, 71, 72, 74, 75, 76, 77, 78, 80, 81, 82,
     83, 84, 85, 86, 87, 88, 89, 90, 50, 51, 52, 53, 54, 55, 56, 57 >>

\* an alphabet of 33 characters: the 32 and the digit 1
ALLOWED_CHARS_AND_ONE ==
  << 65, 66, 67, 68, 69, 70, 71, 72, 74, 75, 76, 77, 78, 80, 81, 82,
     83, 84, 85, 86, 87, 88, 89, 90, 50, 51, 52, 53, 54, 55, 56, 57, 49 >>

\* codeGenerator.js: 'ABCDEFGHJKLMNPQRSTUVWXYZ23456789' as character codes
ALLOWED_CHARS ==
  << 65, 66, 67, 68, 69, 70, 71, 72, 74, 75, 76, 77, 78, 80, 81, 82,
     83, 84, 85, 86, 87, 88, 89, 90, 50, 51, 52, 53, 54, 55, 56, 57 >>

\* '~' of codeGenerator.js and the code point U+F8FF of BatchService.ts
TILDE == 126
HIGH_CODEPOINT == 63743

(***************************************************************************)
(* Inputs.                                                                 *)
(***************************************************************************)
BatchIds == 1..MaxBatches
RunIds == 1..MaxRuns
DeleteIds == 1..MaxDeletes
ExportIds == 1..MaxExports
NoId == 0
\* "" (rejected by the form) and "-" (what sanitizePrefix leaves of "-")
Prefixes == { <<>>, <<45>> }
\* 0 is malformed; 2 runs inline in two chunks; 3 runs offloaded in two chunks
Quantities == {0, 2, 3}
CodeLengths == {1}
RandomIdx == 0..(MaxCharIdx - 1)
\* the suffix lengths and the values of Math.floor(Math.random() *
\* charsLength), the first and the last one included, of the format runs
SuffixLengths == 0..MaxCodeLength
EdgeIdx == {0, 1, Len(ALLOWED_CHARS) - 1}
\* CodeStatus of DatabaseTypes.ts
CodeStatuses == {"available", "assigned", "disabled"}
\* the formats of BatchService.exportCodes, and one that no one implements
Formats == {"csv", "json", "excel", "xml"}

NoRow == [status |-> "none"]
Null == "null"
Now == "ts"

VARIABLES
  stickerBatches,   \* collection stickerBatches: batch id -> row or NoRow
  stickerCodes,     \* collection stickerCodes: function code string -> row
  calls,            \* createBatch calls, one per batch id
  runs,             \* generation runs (inline tasks and handler invocations)
  deletions,        \* deleteBatch calls (client service and callable)
  exports,          \* exportCodes handler invocations
  bucket,           \* storage bucket: the artifact each export call uploaded
  codeExports,      \* collection codeExports: the entry each call added
  paging,           \* a caller paging through getBatches / getCodesFromBatch
  adminUsers,       \* the adminUsers document of the account that logs in
  authUsers,        \* the Auth record of that account
  logins            \* calls of the callable handleLoginAttempt

\* the variables of the code engine and the ones of listing and login
engineVars == << stickerBatches, stickerCodes, calls, runs,
                 deletions, exports, bucket, codeExports >>
adminVars == << paging, adminUsers, authUsers, logins >>

vars == << stickerBatches, stickerCodes, calls, runs,
           deletions, exports, bucket, codeExports,
           paging, adminUsers, authUsers, logins >>

(***************************************************************************)
(* Strings.                                                                *)
(***************************************************************************)
Range(s) == { s[i] : i \in DOMAIN s }

Min(a, b) == IF a <= b THEN a ELSE b

RECURSIVE StrLess(_, _)
\* a < b in the lexicographic order of the document ids
StrLess(a, b) ==
  IF b = <<>> THEN FALSE
  ELSE IF a = <<>> THEN TRUE
  ELSE IF a[1] # b[1] THEN a[1] < b[1]
  ELSE StrLess(Tail(a), Tail(b))

StrLeq(a, b) == a = b \/ StrLess(a, b)

\* a charAt that counts the positions from 1
charAtFromOne(s, k) == IF k \in DOMAIN s THEN << s[k] >> ELSE <<>>

\* String.prototype.charAt: "" outside the string
charAt(s, k) == IF k + 1 \in DOMAIN s THEN << s[k + 1] >> ELSE <<>>

RECURSIVE generateRandomString(_, _)
\* rnd[i] is the value of Math.floor(Math.random() * charsLength) in round i
generateRandomString(length, rnd) ==
  IF length <= 0 THEN <<>>
  ELSE generateRandomString(length - 1, rnd)
         \o charAt(ALLOWED_CHARS, rnd[length])

Slice(s, from, to) == [ k \in 1..(Min(to, Len(s)) - from) |-> s[from + k] ]

(***************************************************************************)
(* State of the tasks.                                                     *)
(***************************************************************************)
NoResult == [batchId |-> NoId, status |-> "none"]

IdleCall == [pc |-> "idle", prefix |-> <<>>, codeLength |-> 0, quantity |-> 0,
             result |-> NoResult, error |-> "none"]

IdleRun ==
  [kind |-> "none", pc |-> "idle", origin |-> "none", batchId |-> NoId,
   auth |-> FALSE,
   prefix |-> <<>>, codeLength |-> 0, quantity |-> 0,
   i |-> 0, count |-> 0, existingCodes |-> {}, codes |-> <<>>,
   generatedCount |-> 0, thrown |-> "none", result |-> "none",
   preExisting |-> {}, written |-> {}, firstScan |-> {}, writtenAll |-> {},
   chunks |-> 0, counted |-> 0, added |-> 0, commitFailed |-> FALSE,
   scanFailed |-> FALSE, marker |-> "none"]

\* what is left of a task once its promise has settled
Settled(run, res) ==
  [IdleRun EXCEPT !.kind = run.kind, !.pc = "ended", !.origin = run.origin,
                  !.batchId = run.batchId,
                  !.auth = run.auth, !.quantity = run.quantity,
                  !.thrown = run.thrown, !.result = res,
                  !.generatedCount = run.generatedCount,
                  !.writtenAll = run.writtenAll,
                  !.chunks = run.chunks, !.counted = run.counted,
                  !.added = run.added, !.commitFailed = run.commitFailed,
                  !.scanFailed = run.scanFailed, !.marker = run.marker]

\* {success, message} of deleteBatch
NoOutcome == [success |-> FALSE, message |-> "none"]

\* a deleteBatch call; seen, path, removed and fault are history: the codes
\* the batch had when the call looked, the path the call took, the code rows
\* it deleted and whether one of its own store operations or its request
\* failed
IdleDeletion ==
  [pc |-> "idle", origin |-> "none", batchId |-> NoId, auth |-> FALSE,
   docs |-> <<>>, i |-> 0, result |-> NoOutcome, error |-> "none",
   seen |-> {}, path |-> "none", removed |-> {}, fault |-> FALSE,
   retry |-> FALSE, notFound |-> FALSE]

\* no file under the storage path of a call, no audit entry of a call
NoFile == [storagePath |-> <<>>]
NoEntry == [batchId |-> NoId]

\* an exportCodes call
NoExport == [fileName |-> <<>>, codeCount |-> 0]

IdleExport ==
  [pc |-> "idle", batchId |-> NoId, auth |-> FALSE, format |-> "csv",
   includeStatus |-> TRUE, codes |-> <<>>, content |-> <<>>,
   fileName |-> <<>>, result |-> NoExport, error |-> "none",
   thrown |-> "none", snapshot |-> << >>]

Terminal(status) == status \in {"completed", "failed"}

Exists(b) == b \in BatchIds /\ stickerBatches[b] # NoRow

\* the code rows of batch b: where('batchId', '==', b)
CodesOf(b) == { c \in DOMAIN stickerCodes : stickerCodes[c].batchId = b }

\* the tasks started so far and the ones a pending createBatch will start
Started == { r \in RunIds : runs[r].pc # "idle" }
Pending == { b \in BatchIds : calls[b].pc = "written" }
FreeRun(r) ==
  /\ runs[r].pc = "idle"
  /\ \A q \in RunIds : q < r => runs[q].pc # "idle"

\* the documents a listing can hold, the page sizes and the filters
DocIds == 1..MaxDocs
PageSizes == {1, 2}
CreatedAts == {1, 2}
BatchFields == [createdAt : CreatedAts, status : {"generating", "completed"}]
CodeFields == [batchId : {1, 2}, status : {"available", "assigned"}]
Collections(Fields) == UNION { [S -> Fields] : S \in SUBSET DocIds }
StatusFilters(kind) ==
  IF kind = "batches" THEN {Null, "generating", "completed"}
  ELSE {Null, "available", "assigned"}

\* no paging started; kind is "batches" (getBatches) or "codes"
\* (getCodesFromBatch); page and lastDoc are the result of the last call,
\* all is what the calls have returned so far
IdlePaging ==
  [pc |-> "idle", kind |-> "none", docs |-> << >>, pageSize |-> 0,
   status |-> Null, batchId |-> NoId, startAfterDoc |-> NoId,
   page |-> << >>, hasMore |-> FALSE, lastDoc |-> NoId, all |-> << >>,
   rejected |-> FALSE]

\* the handleLoginAttempt calls, the adminUsers document of an existing
\* unlocked account, a call that has not been made
LoginIds == 1..MaxLogins
NewAdminUser == [failedLoginAttempts |-> 0, accountLockedUntil |-> Null]
IdleLogin ==
  [pc |-> "idle", attempts |-> 0, result |-> "none", sawLock |-> FALSE]

Init ==
  /\ stickerBatches = [b \in BatchIds |-> NoRow]
  /\ stickerCodes = << >>
  /\ calls = [b \in BatchIds |-> IdleCall]
  /\ runs = [r \in RunIds |-> IdleRun]
  /\ deletions = [d \in DeleteIds |-> IdleDeletion]
  /\ exports = [e \in ExportIds |-> IdleExport]
  /\ bucket = [e \in ExportIds |-> NoFile]
  /\ codeExports = [e \in ExportIds |-> NoEntry]
  /\ paging = IdlePaging
  /\ adminUsers = NewAdminUser
  /\ authUsers = [disabled |-> FALSE]
  /\ logins = [l \in LoginIds |-> IdleLogin]

(***************************************************************************)
(* CodeGenerationService.createBatch.                                      *)
(***************************************************************************)
\* a batch object that starts with the full count
NewBatchRowCounted(prefix, codeLength, quantity) ==
  [prefix |-> prefix, codeLength |-> codeLength, quantity |-> quantity,
   status |-> "generating", completedAt |-> Null, generatedCount |-> quantity]

\* the batch object createBatch prepares from batchData
NewBatchRow(prefix, codeLength, quantity) ==
  [prefix |-> prefix, codeLength |-> codeLength, quantity |-> quantity,
   status |-> "generating", completedAt |-> Null, generatedCount |-> 0]

\* doc(batchesRef) and await setDoc(newBatchRef, batch); a rejected setDoc
\* is caught and rethrown as Error('Failed to create code batch')
CreateBatchWrite(b, prefix, codeLength, quantity, ok) ==
  /\ calls[b].pc = "idle"
  /\ b > 1 => calls[b - 1].pc # "idle"
  /\ Cardinality(Started) + Cardinality(Pending) < MaxRuns
  /\ LET call == [IdleCall EXCEPT !.prefix = prefix,
                                  !.codeLength = codeLength,
                                  !.quantity = quantity]
     IN IF ok
          THEN /\ stickerBatches' = [stickerBatches EXCEPT
                    ![b] = NewBatchRow(prefix, codeLength, quantity)]
               /\ calls' = [calls EXCEPT ![b] = [call EXCEPT !.pc = "written"]]
          ELSE /\ stickerBatches' = stickerBatches
               /\ calls' = [calls EXCEPT ![b] =
                    [call EXCEPT !.pc = "error",
                                 !.error = "Failed to create code batch"]]
  /\ UNCHANGED << stickerCodes, runs,
                 deletions, exports, bucket, codeExports,
                 adminVars >>

\* generateCodes(batchId, batchData) up to its first store operation
InlineStart(b, c) ==
  [IdleRun EXCEPT !.kind = "inline", !.origin = "createBatch",
                  !.batchId = b, !.auth = TRUE,
                  !.prefix = c.prefix, !.codeLength = c.codeLength,
                  !.quantity = c.quantity,
                  !.count = Min(INLINE_BATCH_SIZE, c.quantity),
                  !.pc = IF 0 < c.quantity THEN "scan" ELSE "final"]

\* a request of the callable generateCodeBatch({batchId}) on its way
HandlerCall(origin, batchId, auth) ==
  [IdleRun EXCEPT !.kind = "offloaded", !.pc = "called", !.origin = origin,
                  !.batchId = batchId, !.auth = auth]

\* the strategy choice by quantity, the detached dispatch and the return;
\* delivered = FALSE is a request that never reaches the function
CreateBatchDispatch(b, r, delivered, auth) ==
  /\ calls[b].pc = "written"
  /\ FreeRun(r)
  /\ runs' = [runs EXCEPT ![r] =
       IF calls[b].quantity <= INLINE_THRESHOLD
         THEN InlineStart(b, calls[b])
         ELSE IF delivered
                THEN HandlerCall("createBatch", b, auth)
                ELSE Settled(HandlerCall("createBatch", b, auth), "unavailable")]
  /\ calls' = [calls EXCEPT ![b].pc = "returned",
                            ![b].result = [batchId |-> b, status |-> "generating"]]
  /\ UNCHANGED << stickerBatches, stickerCodes,
                 deletions, exports, bucket, codeExports,
                 adminVars >>

\* exports.generateCodeBatch called by any client with any data
GenerateCodeBatchCall(r, batchId, auth) ==
  /\ FreeRun(r)
  /\ Cardinality(Started) + Cardinality(Pending) < MaxRuns
  /\ runs' = [runs EXCEPT ![r] = HandlerCall("direct", batchId, auth)]
  /\ UNCHANGED << stickerBatches, stickerCodes, calls,
                 deletions, exports, bucket, codeExports,
                 adminVars >>

(***************************************************************************)
(* The generation run: generateCodeBatchHandler (kind "offloaded") and     *)
(* CodeGenerationService.generateCodes (kind "inline").                    *)
(***************************************************************************)
\* a throw that leaves the task where it is, to try the operation again
ThrowAndRetry(run, kind) == [run EXCEPT !.thrown = kind]

\* throw inside the try block: control goes to the catch clause
Throw(run, kind) == [run EXCEPT !.pc = "catch", !.thrown = kind]

\* entry of the handler up to and including batchRef.get()
HandlerRead(r, ok) ==
  /\ runs[r].kind = "offloaded"
  /\ runs[r].pc = "called"
  /\ LET run == runs[r]
         b == run.batchId
     IN runs' = [runs EXCEPT ![r] =
          IF ~run.auth THEN Settled(run, "unauthenticated")
          ELSE IF b = NoId THEN Settled(run, "invalid-argument")
          ELSE IF ~ok THEN Throw(run, "unavailable")
          ELSE IF ~Exists(b) THEN Throw(run, "not-found")
          ELSE IF Terminal(stickerBatches[b].status)
                 THEN Throw(run, "failed-precondition")
          ELSE [run EXCEPT !.pc = "scan",
                           !.prefix = stickerBatches[b].prefix,
                           !.codeLength = stickerBatches[b].codeLength,
                           !.quantity = stickerBatches[b].quantity,
                           !.count = stickerBatches[b].quantity]]
  /\ UNCHANGED << stickerBatches, stickerCodes, calls,
                 deletions, exports, bucket, codeExports,
                 adminVars >>

\* documentId() >= prefix and documentId() < prefix + '~'
HandlerScan(prefix) ==
  { c \in DOMAIN stickerCodes :
      StrLeq(prefix, c) /\ StrLess(c, prefix \o << TILDE >>) }

\* '__name__' >= prefix and '__name__' <= prefix + U+F8FF
InlineMatches(prefix) ==
  { c \in DOMAIN stickerCodes :
      StrLeq(prefix, c) /\ StrLeq(c, prefix \o << HIGH_CODEPOINT >>) }

\* limit(n) of a query ordered by document id
Limit(S, n) == { c \in S : Cardinality({ d \in S : StrLess(d, c) }) < n }

InlineScan(prefix) == Limit(InlineMatches(prefix), SCAN_LIMIT)

\* the stored codes that start with prefix
WithPrefix(prefix) ==
  { c \in DOMAIN stickerCodes :
      Len(c) >= Len(prefix) /\ SubSeq(c, 1, Len(prefix)) = prefix }

\* a scan whose failure is taken for an empty result
ScanOrEmpty(r, ok) ==
  /\ runs[r].pc = "scan"
  /\ LET run == runs[r]
         found == IF ~ok THEN {}
                  ELSE IF run.kind = "inline" THEN InlineScan(run.prefix)
                  ELSE HandlerScan(run.prefix)
     IN runs' = [runs EXCEPT ![r] =
               [run EXCEPT !.existingCodes = found,
                           !.scanFailed = @ \/ ~ok,
                           !.codes = <<>>,
                           !.preExisting = WithPrefix(run.prefix),
                           !.written = {},
                           !.firstScan = IF run.i = 0 THEN WithPrefix(run.prefix)
                                         ELSE @,
                           !.pc = IF 0 < run.count THEN "generate"
                                  ELSE "final"]]
  /\ UNCHANGED << stickerBatches, stickerCodes, calls,
                 deletions, exports, bucket, codeExports,
                 adminVars >>

\* generateUniqueCodesForBatch: the query that fills existingCodes
Scan(r, ok) ==
  /\ runs[r].pc = "scan"
  /\ LET run == runs[r]
         found == IF run.kind = "inline" THEN InlineScan(run.prefix)
                                         ELSE HandlerScan(run.prefix)
     IN runs' = [runs EXCEPT ![r] =
          IF ~ok THEN [Throw(run, "unavailable") EXCEPT !.scanFailed = TRUE]
          ELSE [run EXCEPT !.existingCodes = found,
                           !.codes = <<>>,
                           !.preExisting = WithPrefix(run.prefix),
                           !.written = {},
                           !.firstScan = IF run.i = 0 THEN WithPrefix(run.prefix)
                                         ELSE @,
                           !.pc = IF 0 < run.count THEN "generate"
                                  ELSE "final"]]
  /\ UNCHANGED << stickerBatches, stickerCodes, calls,
                 deletions, exports, bucket, codeExports,
                 adminVars >>

\* an acceptance test that looks at the accumulator only
AcceptsUnscanned(run, fullCode) == fullCode \notin Range(run.codes)

\* an acceptance test that looks at the scanned codes only
AcceptsRepeated(run, fullCode) == fullCode \notin run.existingCodes

\* the acceptance test of the sampling loop
Accepts(run, fullCode) ==
  fullCode \notin run.existingCodes /\ fullCode \notin Range(run.codes)

\* one round of: while (codes.size < count) { ... }
Sample(r, rnd) ==
  /\ runs[r].pc = "generate"
  /\ LET run == runs[r]
         randomPart == generateRandomString(run.codeLength, rnd)
         fullCode == run.prefix \o randomPart
         codes == IF Accepts(run, fullCode) THEN Append(run.codes, fullCode)
                                            ELSE run.codes
     IN runs' = [runs EXCEPT ![r] =
          [run EXCEPT !.codes = codes,
                      !.pc = IF Len(codes) < run.count THEN "generate"
                             ELSE "commit"]]
  /\ UNCHANGED << stickerBatches, stickerCodes, calls,
                 deletions, exports, bucket, codeExports,
                 adminVars >>

\* a bulk write of everything the run has generated, whatever its size
ChunkAll(run) == run.codes

\* the codes of the bulk write the run is about to commit
Chunk(run) ==
  IF run.kind = "inline" THEN run.codes
  ELSE Slice(run.codes, run.i, run.i + BATCH_SIZE)

\* a bulk write that leaves the rows that are already there as they are
SetCodesIfAbsent(S, b) ==
  [ c \in DOMAIN stickerCodes \cup S |->
      IF c \in DOMAIN stickerCodes THEN stickerCodes[c]
      ELSE [batchId |-> b, status |-> "available"] ]

\* batch.set(codeRef, {batchId, status: 'available', ...}) for each code
SetCodes(S, b) ==
  [ c \in DOMAIN stickerCodes \cup S |->
      IF c \in S THEN [batchId |-> b, status |-> "available"]
      ELSE stickerCodes[c] ]

\* the loop header that follows the progress update
NextChunk(run) ==
  IF run.kind = "inline"
    THEN LET i == run.i + INLINE_BATCH_SIZE
         IN [run EXCEPT !.i = i,
                        !.count = Min(INLINE_BATCH_SIZE, run.quantity - i),
                        !.pc = IF i < run.quantity THEN "scan" ELSE "final"]
    ELSE LET i == run.i + BATCH_SIZE
         IN [run EXCEPT !.i = i,
                        !.pc = IF i < Len(run.codes) THEN "commit" ELSE "final"]

\* a commit that goes on to the next chunk without the progress update
CommitUncounted(r, ok) ==
  /\ runs[r].pc = "commit"
  /\ LET run == runs[r]
         chunk == Range(Chunk(run))
     IN IF ok
          THEN /\ stickerCodes' = SetCodes(chunk, run.batchId)
               /\ runs' = [runs EXCEPT ![r] =
                    NextChunk([run EXCEPT !.generatedCount = @ + Len(Chunk(run)),
                                          !.written = @ \cup chunk,
                                          !.writtenAll = @ \cup chunk,
                                          !.chunks = @ + 1])]
          ELSE /\ stickerCodes' = stickerCodes
               /\ runs' = [runs EXCEPT ![r] =
                    [Throw(run, "unavailable") EXCEPT !.commitFailed = TRUE]]
  /\ UNCHANGED << stickerBatches, calls,
                 deletions, exports, bucket, codeExports,
                 adminVars >>

\* await batch.commit(): all rows of the chunk or none
Commit(r, ok) ==
  /\ runs[r].pc = "commit"
  /\ LET run == runs[r]
         chunk == Range(Chunk(run))
     IN IF ok
          THEN /\ stickerCodes' = SetCodes(chunk, run.batchId)
               /\ runs' = [runs EXCEPT ![r] =
                    [run EXCEPT !.pc = "increment",
                                !.generatedCount = @ + Len(Chunk(run)),
                                !.written = @ \cup chunk,
                                !.writtenAll = @ \cup chunk,
                                !.chunks = @ + 1]]
          ELSE /\ stickerCodes' = stickerCodes
               /\ runs' = [runs EXCEPT ![r] =
                    [Throw(run, "unavailable") EXCEPT !.commitFailed = TRUE]]
  /\ UNCHANGED << stickerBatches, calls,
                 deletions, exports, bucket, codeExports,
                 adminVars >>

\* a progress write that creates the row it does not find
IncrementOrCreate(r, ok) ==
  /\ runs[r].pc = "increment"
  /\ LET run == runs[r]
         b == run.batchId
         row == IF Exists(b) THEN stickerBatches[b]
                ELSE NewBatchRow(run.prefix, run.codeLength, run.quantity)
     IN IF ok /\ b \in BatchIds
          THEN /\ stickerBatches' = [stickerBatches EXCEPT
                    ![b] = [row EXCEPT
                              !.generatedCount = @ + Len(Chunk(run))]]
               /\ runs' = [runs EXCEPT ![r] =
                    NextChunk([run EXCEPT !.counted = @ + 1,
                                          !.added = @ + Len(Chunk(run))])]
          ELSE /\ stickerBatches' = stickerBatches
               /\ runs' = [runs EXCEPT ![r] =
                    Throw(run, IF ok THEN "not-found" ELSE "unavailable")]
  /\ UNCHANGED << stickerCodes, calls,
                 deletions, exports, bucket, codeExports,
                 adminVars >>

\* update({generatedCount: increment(n)}); update rejects on a missing row
Increment(r, ok) ==
  /\ runs[r].pc = "increment"
  /\ LET run == runs[r]
         b == run.batchId
     IN IF ok /\ Exists(b)
          THEN /\ stickerBatches' = [stickerBatches EXCEPT
                    ![b].generatedCount = @ + Len(Chunk(run))]
               /\ runs' = [runs EXCEPT ![r] =
                    NextChunk([run EXCEPT !.counted = @ + 1,
                                          !.added = @ + Len(Chunk(run))])]
          ELSE /\ stickerBatches' = stickerBatches
               /\ runs' = [runs EXCEPT ![r] =
                    Throw(run, IF ok THEN "not-found" ELSE "unavailable")]
  /\ UNCHANGED << stickerCodes, calls,
                 deletions, exports, bucket, codeExports,
                 adminVars >>

\* update({status: 'completed', completedAt, generatedCount})
MarkCompleted(r, ok) ==
  /\ runs[r].pc = "final"
  /\ LET run == runs[r]
         b == run.batchId
     IN IF ok /\ Exists(b)
          THEN /\ stickerBatches' = [stickerBatches EXCEPT
                    ![b].status = "completed",
                    ![b].completedAt = Now,
                    ![b].generatedCount = run.generatedCount]
               /\ runs' = [runs EXCEPT ![r] = Settled(run, "success")]
          ELSE /\ stickerBatches' = stickerBatches
               /\ runs' = [runs EXCEPT ![r] =
                    Throw(run, IF ok THEN "not-found" ELSE "unavailable")]
  /\ UNCHANGED << stickerCodes, calls,
                 deletions, exports, bucket, codeExports,
                 adminVars >>

\* a catch clause that rethrows and leaves the batch row alone
Rethrow(r, ok) ==
  /\ runs[r].pc = "catch"
  /\ LET run == runs[r]
         b == run.batchId
         done == ok /\ Exists(b)
         caught == [run EXCEPT !.marker = IF done THEN "accepted"
                                          ELSE "rejected"]
     IN /\ stickerBatches' =
             stickerBatches
        /\ runs' = [runs EXCEPT ![r] =
             IF run.kind = "offloaded" THEN Settled(caught, "internal")
             ELSE IF done THEN Settled(caught, run.thrown)
             ELSE Settled(caught, IF ok THEN "not-found" ELSE "unavailable")]
  /\ UNCHANGED << stickerCodes, calls,
                 deletions, exports, bucket, codeExports,
                 adminVars >>

\* the catch clause: update({status: 'failed'}), then the rethrow; the
\* handler swallows a rejected update and throws HttpsError('internal'),
\* generateCodes rejects with the error of the update or the caught one
MarkFailed(r, ok) ==
  /\ runs[r].pc = "catch"
  /\ LET run == runs[r]
         b == run.batchId
         done == ok /\ Exists(b)
         caught == [run EXCEPT !.marker = IF done THEN "accepted"
                                          ELSE "rejected"]
     IN /\ stickerBatches' =
             IF done THEN [stickerBatches EXCEPT ![b].status = "failed"]
             ELSE stickerBatches
        /\ runs' = [runs EXCEPT ![r] =
             IF run.kind = "offloaded" THEN Settled(caught, "internal")
             ELSE IF done THEN Settled(caught, run.thrown)
             ELSE Settled(caught, IF ok THEN "not-found" ELSE "unavailable")]
  /\ UNCHANGED << stickerCodes, calls,
                 deletions, exports, bucket, codeExports,
                 adminVars >>

Next ==
  \/ \E b \in BatchIds, p \in Prefixes, l \in CodeLengths, q \in Quantities,
        ok \in BOOLEAN : CreateBatchWrite(b, p, l, q, ok)
  \/ \E b \in BatchIds, r \in RunIds, delivered \in BOOLEAN, auth \in BOOLEAN :
        CreateBatchDispatch(b, r, delivered, auth)
  \/ \E r \in RunIds, b \in BatchIds \cup {NoId}, auth \in BOOLEAN :
        GenerateCodeBatchCall(r, b, auth)
  \/ \E r \in RunIds, ok \in BOOLEAN : HandlerRead(r, ok)
  \/ \E r \in RunIds, ok \in BOOLEAN : Scan(r, ok)
  \/ \E r \in RunIds : \E rnd \in [1..runs[r].codeLength -> RandomIdx] :
        Sample(r, rnd)
  \/ \E r \in RunIds, ok \in BOOLEAN : Commit(r, ok)
  \/ \E r \in RunIds, ok \in BOOLEAN : Increment(r, ok)
  \/ \E r \in RunIds, ok \in BOOLEAN : MarkCompleted(r, ok)
  \/ \E r \in RunIds, ok \in BOOLEAN : MarkFailed(r, ok)

Spec == Init /\ [][Next]_vars

(***************************************************************************)
(* Deletion: BatchService.deleteBatch (origin "client") and the callable   *)
(* deleteBatch, deleteBatchHandler, which the client calls for a batch     *)
(* with codes and which any client can call directly (origin "direct").    *)
(***************************************************************************)
\* the message of the HttpsError the handler throws, or of a store error
Message(kind) ==
  CASE kind = "unauthenticated" -> "Authentication required to delete batch"
    [] kind = "invalid-argument" -> "Batch ID is required"
    [] kind = "internal" -> "Error deleting batch"
    [] OTHER -> kind

\* the documents of a query snapshot, in the order of their ids
Docs(S) ==
  [ k \in 1..Cardinality(S) |->
      CHOOSE c \in S : Cardinality({ d \in S : StrLess(d, c) }) = k - 1 ]

\* batch.delete(doc.ref) for each document of the chunk
DeleteCodes(S) == [ c \in DOMAIN stickerCodes \ S |-> stickerCodes[c] ]

\* the call is over: return of {success, message}, or the rejection with kind
Returned(del, success, message, kind) ==
  [del EXCEPT !.pc = "returned", !.docs = <<>>, !.i = 0,
              !.result = [success |-> success, message |-> message],
              !.error = kind]

\* the client's catch clause
ClientFailed(del, message) ==
  [Returned(del, FALSE, message, "none") EXCEPT !.fault = TRUE]

\* the handler rejects with HttpsError(kind); the client that called it
\* returns {success: false, message: error.message}
HandlerFailed(del, kind) ==
  IF del.origin = "client" THEN Returned(del, FALSE, Message(kind), kind)
  ELSE [del EXCEPT !.pc = "returned", !.docs = <<>>, !.i = 0, !.error = kind]

\* the handler returns {success: true, message}
HandlerDone(del) ==
  Returned(del, TRUE,
           "Batch and all associated codes deleted successfully", "none")

\* an earlier deletion of b stopped after deleting codes, the row is there
Partial(b) ==
  /\ Exists(b)
  /\ \E q \in DeleteIds :
       /\ deletions[q].batchId = b
       /\ deletions[q].pc = "returned"
       /\ ~deletions[q].result.success
       /\ deletions[q].removed # {}
  /\ \A q \in DeleteIds :
       deletions[q].batchId = b => deletions[q].pc = "returned"

FreeDeletion(d) ==
  /\ deletions[d].pc = "idle"
  /\ \A q \in DeleteIds : q < d => deletions[q].pc # "idle"

\* BatchService.deleteBatch(batchId) is called
DeleteBatchCall(d, b) ==
  /\ FreeDeletion(d)
  /\ deletions' = [deletions EXCEPT ![d] =
       [IdleDeletion EXCEPT !.pc = "getDoc", !.origin = "client",
                            !.batchId = b, !.retry = Partial(b)]]
  /\ UNCHANGED << stickerBatches, stickerCodes, calls, runs,
                 exports, bucket, codeExports,
                 adminVars >>

\* await getDoc(batchRef) and the existence check
DeleteBatchGetDoc(d, ok) ==
  /\ deletions[d].pc = "getDoc"
  /\ LET del == deletions[d]
     IN deletions' = [deletions EXCEPT ![d] =
          IF ~ok THEN ClientFailed(del, "unavailable")
          ELSE IF ~Exists(del.batchId)
                 THEN [Returned(del, FALSE, "Batch not found", "none")
                         EXCEPT !.notFound = TRUE]
          ELSE [del EXCEPT !.pc = "probe"]]
  /\ UNCHANGED << stickerBatches, stickerCodes, calls, runs,
                 exports, bucket, codeExports,
                 adminVars >>

\* a probe that hands every existing batch to the callable
DeleteBatchProbeAlwaysCalls(d, ok) ==
  /\ deletions[d].pc = "probe"
  /\ LET del == deletions[d]
     IN deletions' = [deletions EXCEPT ![d] =
          IF ~ok THEN ClientFailed(del, "unavailable")
          ELSE [del EXCEPT !.seen = CodesOf(del.batchId),
                           !.pc = "callFn", !.path = "chunked"]]
  /\ UNCHANGED << stickerBatches, stickerCodes, calls, runs,
                 exports, bucket, codeExports,
                 adminVars >>

\* getDocs(where('batchId', '==', batchId), limit(1)) and the choice of path
DeleteBatchProbe(d, ok) ==
  /\ deletions[d].pc = "probe"
  /\ LET del == deletions[d]
         codesSnapshot == Limit(CodesOf(del.batchId), 1)
     IN deletions' = [deletions EXCEPT ![d] =
          IF ~ok THEN ClientFailed(del, "unavailable")
          ELSE [del EXCEPT !.seen = CodesOf(del.batchId),
                           !.pc = IF codesSnapshot # {} THEN "callFn"
                                  ELSE "deleteDoc",
                           !.path = IF codesSnapshot # {} THEN "chunked"
                                    ELSE "direct"]]
  /\ UNCHANGED << stickerBatches, stickerCodes, calls, runs,
                 exports, bucket, codeExports,
                 adminVars >>

\* await deleteDoc(batchRef) and the return of the fast path
DeleteBatchDirect(d, ok) ==
  /\ deletions[d].pc = "deleteDoc"
  /\ LET del == deletions[d]
     IN IF ok
          THEN /\ stickerBatches' = [stickerBatches EXCEPT ![del.batchId] = NoRow]
               /\ deletions' = [deletions EXCEPT ![d] =
                    Returned(del, TRUE, "Batch deleted successfully", "none")]
          ELSE /\ stickerBatches' = stickerBatches
               /\ deletions' = [deletions EXCEPT ![d] =
                    ClientFailed(del, "unavailable")]
  /\ UNCHANGED << stickerCodes, calls, runs, exports, bucket, codeExports,
                 adminVars >>

\* the token refresh and await deleteBatchFn({batchId}); delivered = FALSE is
\* a refresh or a request that fails, auth = FALSE a client without a user
DeleteBatchInvoke(d, delivered, auth) ==
  /\ deletions[d].pc = "callFn"
  /\ LET del == deletions[d]
     IN deletions' = [deletions EXCEPT ![d] =
          IF delivered THEN [del EXCEPT !.pc = "called", !.auth = auth]
          ELSE ClientFailed(del, "unavailable")]
  /\ UNCHANGED << stickerBatches, stickerCodes, calls, runs,
                 exports, bucket, codeExports,
                 adminVars >>

\* exports.deleteBatch called by any client with any data
DeleteBatchFnCall(d, batchId, auth) ==
  /\ FreeDeletion(d)
  /\ deletions' = [deletions EXCEPT ![d] =
       [IdleDeletion EXCEPT !.pc = "called", !.origin = "direct",
                            !.batchId = batchId, !.auth = auth,
                            !.path = "chunked"]]
  /\ UNCHANGED << stickerBatches, stickerCodes, calls, runs,
                 exports, bucket, codeExports,
                 adminVars >>

\* entry of deleteBatchHandler up to and including batchRef.get(); what is
\* thrown inside the try block is rethrown as HttpsError('internal')
DeleteHandlerRead(d, ok) ==
  /\ deletions[d].pc = "called"
  /\ LET del == deletions[d]
     IN deletions' = [deletions EXCEPT ![d] =
          IF ~del.auth
            THEN [HandlerFailed(del, "unauthenticated") EXCEPT !.fault = TRUE]
          ELSE IF del.batchId = NoId THEN HandlerFailed(del, "invalid-argument")
          ELSE IF ~ok THEN [HandlerFailed(del, "internal") EXCEPT !.fault = TRUE]
          ELSE IF ~Exists(del.batchId)
                 THEN [HandlerFailed(del, "internal") EXCEPT !.notFound = TRUE]
          ELSE [del EXCEPT !.pc = "query"]]
  /\ UNCHANGED << stickerBatches, stickerCodes, calls, runs,
                 exports, bucket, codeExports,
                 adminVars >>

\* the query of the batch's codes and the split of its documents in chunks
DeleteHandlerQuery(d, ok) ==
  /\ deletions[d].pc = "query"
  /\ LET del == deletions[d]
         codesSnapshot == CodesOf(del.batchId)
     IN deletions' = [deletions EXCEPT ![d] =
          IF ~ok THEN [HandlerFailed(del, "internal") EXCEPT !.fault = TRUE]
          ELSE [del EXCEPT !.docs = Docs(codesSnapshot), !.i = 0,
                           !.seen = IF del.origin = "direct" THEN codesSnapshot
                                    ELSE @,
                           !.pc = IF codesSnapshot # {} THEN "commit"
                                  ELSE "delete"]]
  /\ UNCHANGED << stickerBatches, stickerCodes, calls, runs,
                 exports, bucket, codeExports,
                 adminVars >>

\* one round of: for (const chunk of chunks) { ...; await batch.commit() }
DeleteHandlerCommit(d, ok) ==
  /\ deletions[d].pc = "commit"
  /\ LET del == deletions[d]
         chunk == Range(Slice(del.docs, del.i, del.i + chunkSize))
         i == del.i + chunkSize
     IN IF ok
          THEN /\ stickerCodes' = DeleteCodes(chunk)
               /\ deletions' = [deletions EXCEPT ![d] =
                    [del EXCEPT !.i = i,
                                !.removed = @ \cup chunk,
                                !.pc = IF i < Len(del.docs) THEN "commit"
                                       ELSE "delete"]]
          ELSE /\ stickerCodes' = stickerCodes
               /\ deletions' = [deletions EXCEPT ![d] =
                    [HandlerFailed(del, "internal") EXCEPT !.fault = TRUE]]
  /\ UNCHANGED << stickerBatches, calls, runs, exports, bucket, codeExports,
                 adminVars >>

\* await batchRef.delete() and the return of the handler
DeleteHandlerDelete(d, ok) ==
  /\ deletions[d].pc = "delete"
  /\ LET del == deletions[d]
     IN IF ok
          THEN /\ stickerBatches' = [stickerBatches EXCEPT ![del.batchId] = NoRow]
               /\ deletions' = [deletions EXCEPT ![d] = HandlerDone(del)]
          ELSE /\ stickerBatches' = stickerBatches
               /\ deletions' = [deletions EXCEPT ![d] =
                    [HandlerFailed(del, "internal") EXCEPT !.fault = TRUE]]
  /\ UNCHANGED << stickerCodes, calls, runs, exports, bucket, codeExports,
                 adminVars >>

(***************************************************************************)
(* Export: the callable exportCodes, exportCodesHandler, and the status    *)
(* changes of single codes that BatchService.updateCodeStatus makes.       *)
(***************************************************************************)
\* updateDoc(codeRef, {status}) on a code that getDoc found
UpdateCodeStatus(c, status) ==
  /\ c \in DOMAIN stickerCodes
  /\ stickerCodes[c].status # status
  /\ stickerCodes' = [stickerCodes EXCEPT ![c].status = status]
  /\ UNCHANGED << stickerBatches, calls, runs,
                 deletions, exports, bucket, codeExports,
                 adminVars >>

\* an export that reads the available codes only
ExportItemsAvailable(S, includeStatus) ==
  LET A == { c \in S : stickerCodes[c].status = "available" }
  IN [ k \in 1..Cardinality(A) |->
         IF includeStatus
           THEN [code |-> Docs(A)[k], status |-> stickerCodes[Docs(A)[k]].status]
           ELSE [code |-> Docs(A)[k]] ]

\* codesSnapshot.forEach(doc => codes.push(...))
ExportItems(S, includeStatus) ==
  [ k \in 1..Cardinality(S) |->
      IF includeStatus
        THEN [code |-> Docs(S)[k], status |-> stickerCodes[Docs(S)[k]].status]
        ELSE [code |-> Docs(S)[k]] ]

\* the switch on format: the lines of the CSV or the object of the JSON
Render(format, includeStatus, batchId, codes) ==
  IF format = "csv"
    THEN << IF includeStatus THEN << "Code", "Status", "CreatedAt" >>
            ELSE << "Code" >> >> \o codes
    ELSE << [batchId |-> batchId, exportedAt |-> Now, codes |-> codes] >>

\* `codes_${batchId}_${Date.now()}.${format}`
FileName(batchId, format) == << "codes", batchId, Now, format >>

\* the handler rejects with HttpsError(kind)
ExportFailed(exp, kind) == [exp EXCEPT !.pc = "returned", !.error = kind]

\* throw inside the try block: the catch clause rethrows it as 'internal'
ExportThrow(exp, kind) ==
  [exp EXCEPT !.pc = "returned", !.thrown = kind, !.error = "internal"]

\* exports.exportCodes called by any client with any data
ExportCodesCall(e, batchId, auth, format, includeStatus) ==
  /\ exports[e].pc = "idle"
  /\ exports' = [exports EXCEPT ![e] =
       [IdleExport EXCEPT !.pc = "called", !.batchId = batchId, !.auth = auth,
                          !.format = format, !.includeStatus = includeStatus]]
  /\ UNCHANGED << stickerBatches, stickerCodes, calls, runs,
                 deletions, bucket, codeExports,
                 adminVars >>

\* entry of exportCodesHandler up to and including batchRef.get()
ExportRead(e, ok) ==
  /\ exports[e].pc = "called"
  /\ LET exp == exports[e]
     IN exports' = [exports EXCEPT ![e] =
          IF ~exp.auth THEN ExportFailed(exp, "unauthenticated")
          ELSE IF exp.batchId = NoId THEN ExportFailed(exp, "invalid-argument")
          ELSE IF ~ok THEN ExportThrow(exp, "unavailable")
          ELSE IF ~Exists(exp.batchId) THEN ExportThrow(exp, "not-found")
          ELSE [exp EXCEPT !.pc = "query"]]
  /\ UNCHANGED << stickerBatches, stickerCodes, calls, runs,
                 deletions, bucket, codeExports,
                 adminVars >>

\* the query of the batch's codes, the empty check and the switch on format
ExportQuery(e, ok) ==
  /\ exports[e].pc = "query"
  /\ LET exp == exports[e]
         codesSnapshot == CodesOf(exp.batchId)
         codes == ExportItems(codesSnapshot, exp.includeStatus)
         read == [exp EXCEPT !.codes = codes,
                             !.snapshot = [c \in codesSnapshot |-> stickerCodes[c]]]
     IN exports' = [exports EXCEPT ![e] =
          IF ~ok THEN ExportThrow(exp, "unavailable")
          ELSE IF Len(codes) = 0 THEN ExportThrow(read, "not-found")
          ELSE IF exp.format \notin {"csv", "json"}
                 THEN ExportThrow(read, "invalid-argument")
          ELSE [read EXCEPT
                  !.content = Render(exp.format, exp.includeStatus,
                                     exp.batchId, codes),
                  !.fileName = FileName(exp.batchId, exp.format),
                  !.pc = "upload"]]
  /\ UNCHANGED << stickerBatches, stickerCodes, calls, runs,
                 deletions, bucket, codeExports,
                 adminVars >>

\* await bucket.upload(tempFilePath, {destination: storagePath, ...})
ExportUpload(e, ok) ==
  /\ exports[e].pc = "upload"
  /\ LET exp == exports[e]
     IN IF ok
          THEN /\ bucket' = [bucket EXCEPT ![e] =
                    [storagePath |-> << "exports", exp.fileName >>,
                     content |-> exp.content, batchId |-> exp.batchId]]
               /\ exports' = [exports EXCEPT ![e].pc = "sign"]
          ELSE /\ bucket' = bucket
               /\ exports' = [exports EXCEPT ![e] = ExportThrow(exp, "unavailable")]
  /\ UNCHANGED << stickerBatches, stickerCodes, calls, runs,
                 deletions, codeExports,
                 adminVars >>

\* await bucket.file(storagePath).getSignedUrl(...)
ExportSign(e, ok) ==
  /\ exports[e].pc = "sign"
  /\ exports' = [exports EXCEPT ![e] =
       IF ok THEN [exports[e] EXCEPT !.pc = "audit"]
       ELSE ExportThrow(exports[e], "unavailable")]
  /\ UNCHANGED << stickerBatches, stickerCodes, calls, runs,
                 deletions, bucket, codeExports,
                 adminVars >>

\* await exportRef.set({batchId, fileName, format, codeCount, ...}) and the
\* return of {downloadUrl, fileName, codeCount}
ExportAudit(e, ok) ==
  /\ exports[e].pc = "audit"
  /\ LET exp == exports[e]
     IN IF ok
          THEN /\ codeExports' = [codeExports EXCEPT ![e] =
                    [batchId |-> exp.batchId,
                     fileName |-> exp.fileName, format |-> exp.format,
                     codeCount |-> Len(exp.codes)]]
               /\ exports' = [exports EXCEPT ![e] =
                    [exp EXCEPT !.pc = "returned",
                                !.result = [fileName |-> exp.fileName,
                                            codeCount |-> Len(exp.codes)]]]
          ELSE /\ codeExports' = codeExports
               /\ exports' = [exports EXCEPT ![e] = ExportThrow(exp, "unavailable")]
  /\ UNCHANGED << stickerBatches, stickerCodes, calls, runs,
                 deletions, bucket,
                 adminVars >>

(***************************************************************************)
(* Generation and export together: one batch is created and generated by   *)
(* a store that rejects nothing, the status of its codes changes, and      *)
(* exportCodes, whose store operations can each be rejected, is called at  *)
(* any time.                                                               *)
(***************************************************************************)
ExportNext ==
  \/ \E q \in Quantities \ {0} : CreateBatchWrite(1, <<45>>, 1, q, TRUE)
  \/ \E b \in BatchIds, r \in RunIds : CreateBatchDispatch(b, r, TRUE, TRUE)
  \/ \E r \in RunIds : HandlerRead(r, TRUE)
  \/ \E r \in RunIds : Scan(r, TRUE)
  \/ \E r \in RunIds : \E rnd \in [1..runs[r].codeLength -> RandomIdx] :
        Sample(r, rnd)
  \/ \E r \in RunIds : Commit(r, TRUE)
  \/ \E r \in RunIds : Increment(r, TRUE)
  \/ \E r \in RunIds : MarkCompleted(r, TRUE)
  \/ \E c \in DOMAIN stickerCodes, status \in CodeStatuses :
        UpdateCodeStatus(c, status)
  \/ \E e \in ExportIds, b \in BatchIds \cup {NoId}, auth \in BOOLEAN,
        format \in Formats, includeStatus \in BOOLEAN :
        ExportCodesCall(e, b, auth, format, includeStatus)
  \/ \E e \in ExportIds, ok \in BOOLEAN : ExportRead(e, ok)
  \/ \E e \in ExportIds, ok \in BOOLEAN : ExportQuery(e, ok)
  \/ \E e \in ExportIds, ok \in BOOLEAN : ExportUpload(e, ok)
  \/ \E e \in ExportIds, ok \in BOOLEAN : ExportSign(e, ok)
  \/ \E e \in ExportIds, ok \in BOOLEAN : ExportAudit(e, ok)

ExportSpec == Init /\ [][ExportNext]_vars

(***************************************************************************)
(* Generation and deletion together: one batch is created and generated   *)
(* with a well-formed request and a store that rejects nothing but chunk   *)
(* commits, while deleteBatch calls, whose store operations can each be    *)
(* rejected, run at any time for any batch id.                             *)
(***************************************************************************)
DeleteNext ==
  \/ \E q \in Quantities \ {0} : CreateBatchWrite(1, <<45>>, 1, q, TRUE)
  \/ \E b \in BatchIds, r \in RunIds : CreateBatchDispatch(b, r, TRUE, TRUE)
  \/ \E r \in RunIds : HandlerRead(r, TRUE)
  \/ \E r \in RunIds : Scan(r, TRUE)
  \/ \E r \in RunIds : \E rnd \in [1..runs[r].codeLength -> RandomIdx] :
        Sample(r, rnd)
  \/ \E r \in RunIds, ok \in BOOLEAN : Commit(r, ok)
  \/ \E r \in RunIds : Increment(r, TRUE)
  \/ \E r \in RunIds : MarkCompleted(r, TRUE)
  \/ \E r \in RunIds : MarkFailed(r, TRUE)
  \/ \E d \in DeleteIds, b \in BatchIds : DeleteBatchCall(d, b)
  \/ \E d \in DeleteIds, ok \in BOOLEAN : DeleteBatchGetDoc(d, ok)
  \/ \E d \in DeleteIds, ok \in BOOLEAN : DeleteBatchProbe(d, ok)
  \/ \E d \in DeleteIds, ok \in BOOLEAN : DeleteBatchDirect(d, ok)
  \/ \E d \in DeleteIds, delivered \in BOOLEAN, auth \in BOOLEAN :
        DeleteBatchInvoke(d, delivered, auth)
  \/ \E d \in DeleteIds, b \in BatchIds \cup {NoId}, auth \in BOOLEAN :
        DeleteBatchFnCall(d, b, auth)
  \/ \E d \in DeleteIds, ok \in BOOLEAN : DeleteHandlerRead(d, ok)
  \/ \E d \in DeleteIds, ok \in BOOLEAN : DeleteHandlerQuery(d, ok)
  \/ \E d \in DeleteIds, ok \in BOOLEAN : DeleteHandlerCommit(d, ok)
  \/ \E d \in DeleteIds, ok \in BOOLEAN : DeleteHandlerDelete(d, ok)

DeleteSpec == Init /\ [][DeleteNext]_vars

(***************************************************************************)
(* The format of the codes: batches of either strategy with every suffix   *)
(* length up to MaxCodeLength, generated by a store that rejects nothing.  *)
(***************************************************************************)
FormatNext ==
  \/ \E p \in Prefixes, l \in SuffixLengths, q \in Quantities \ {0} :
        CreateBatchWrite(1, p, l, q, TRUE)
  \/ \E b \in BatchIds, r \in RunIds : CreateBatchDispatch(b, r, TRUE, TRUE)
  \/ \E r \in RunIds : HandlerRead(r, TRUE)
  \/ \E r \in RunIds : Scan(r, TRUE)
  \/ \E r \in RunIds : \E rnd \in [1..runs[r].codeLength -> EdgeIdx] :
        Sample(r, rnd)
  \/ \E r \in RunIds : Commit(r, TRUE)
  \/ \E r \in RunIds : Increment(r, TRUE)
  \/ \E r \in RunIds : MarkCompleted(r, TRUE)

FormatSpec == Init /\ [][FormatNext]_vars

(***************************************************************************)
(* C1.  Every batch whose status becomes completed has exactly quantity    *)
(* code rows carrying its batchId at that moment (the rows are keyed by    *)
(* the code string, hence pairwise distinct).                              *)
(***************************************************************************)
BecomesCompleted(b) ==
  /\ stickerBatches'[b].status = "completed"
  /\ stickerBatches[b].status # "completed"

C1_CompletedHasQuantityCodes ==
  [][\A b \in BatchIds :
       BecomesCompleted(b) =>
         Cardinality({ c \in DOMAIN stickerCodes' : stickerCodes'[c].batchId = b })
           = stickerBatches'[b].quantity]_vars

C3_TerminalIsFinal ==
  [][\A b \in BatchIds :
       (Terminal(stickerBatches[b].status) /\ stickerBatches'[b] # NoRow) =>
         /\ stickerBatches'[b].status = stickerBatches[b].status
         /\ stickerBatches'[b].generatedCount = stickerBatches[b].generatedCount]_vars

(***************************************************************************)
(* C4.  A generation call that found its batch completed or failed writes  *)
(* nothing: none of its steps changes a batch row or a code row.           *)
(***************************************************************************)
C4_TerminalCallWritesNothing ==
  [][\A r \in RunIds :
       (runs[r].thrown = "failed-precondition" /\ runs'[r] # runs[r]) =>
         /\ stickerBatches' = stickerBatches
         /\ stickerCodes' = stickerCodes]_vars

(***************************************************************************)
(* C5.  A generation call that found its batch completed or failed returns *)
(* the error kind failed-precondition to its caller.                       *)
(***************************************************************************)
C5_TerminalCallFailedPrecondition ==
  \A r \in RunIds :
    (runs[r].pc = "ended" /\ runs[r].thrown = "failed-precondition") =>
      runs[r].result = "failed-precondition"

(***************************************************************************)
(* C6.  The stored generatedCount of a batch never decreases from one      *)
(* state to the next, and it equals quantity in the state in which the     *)
(* status becomes completed.                                               *)
(***************************************************************************)
C6_GeneratedCountMonotone ==
  [][\A b \in BatchIds :
       (Exists(b) /\ stickerBatches'[b] # NoRow) =>
         /\ stickerBatches'[b].generatedCount >= stickerBatches[b].generatedCount
         /\ BecomesCompleted(b) =>
              stickerBatches'[b].generatedCount = stickerBatches'[b].quantity]_vars

(***************************************************************************)
(* C7.  Every batch row has generatedCount <= quantity.                    *)
(***************************************************************************)
C7_GeneratedCountBounded ==
  \A b \in BatchIds :
    Exists(b) => stickerBatches[b].generatedCount <= stickerBatches[b].quantity

(***************************************************************************)
(* C8.  createBatch writes the row with status generating and              *)
(* generatedCount 0 before it dispatches generation and before any code    *)
(* row of the batch exists; it returns {batchId, status: generating} in    *)
(* the step that dispatches the task, whose run has not finished then.     *)
(***************************************************************************)
DispatchedBy(r, b) == runs[r].origin = "createBatch" /\ runs[r].batchId = b

C8_RowBeforeCodes ==
  /\ \A c \in DOMAIN stickerCodes :
       /\ stickerCodes[c].batchId \in BatchIds
       /\ calls[stickerCodes[c].batchId].pc \in {"written", "returned"}
  /\ \A r \in RunIds, b \in BatchIds :
       DispatchedBy(r, b) => calls[b].pc = "returned"

C8_WriteStep(b) ==
  (~Exists(b) /\ stickerBatches'[b] # NoRow) =>
    /\ stickerBatches'[b].status = "generating"
    /\ stickerBatches'[b].generatedCount = 0
    /\ CodesOf(b) = {}
    /\ \A r \in RunIds : ~DispatchedBy(r, b)

C8_ReturnStep(b) ==
  (calls[b].pc # "returned" /\ calls'[b].pc = "returned") =>
    /\ calls[b].pc = "written"
    /\ calls'[b].result = [batchId |-> b, status |-> "generating"]
    /\ \E r \in RunIds :
         /\ runs[r].pc = "idle"
         /\ runs'[r].origin = "createBatch"
         /\ runs'[r].batchId = b
         /\ runs'[r].result \in {"none", "unavailable"}

C8_WriteDispatchReturn ==
  /\ []C8_RowBeforeCodes
  /\ [][\A b \in BatchIds : C8_WriteStep(b) /\ C8_ReturnStep(b)]_vars

\* createBatch has returned while its run is still writing code rows
C8_Witness ==
  \E b \in BatchIds, r \in RunIds :
    /\ calls[b].pc = "returned"
    /\ calls[b].result = [batchId |-> b, status |-> "generating"]
    /\ DispatchedBy(r, b)
    /\ runs[r].pc = "increment"
    /\ CodesOf(b) # {}
    /\ stickerBatches[b].status = "generating"

(***************************************************************************)
(* C9.  createBatch with a malformed prefix, quantity or codeLength        *)
(* returns an error (of kind invalid-argument, says the claim), creates no *)
(* batch row and dispatches nothing.                                       *)
(***************************************************************************)
Malformed(c) == c.prefix = <<>> \/ c.quantity <= 0 \/ c.codeLength <= 0

C9_MalformedRejected ==
  \A b \in BatchIds :
    (calls[b].pc # "idle" /\ Malformed(calls[b])) =>
      /\ calls[b].pc = "error"
      /\ ~Exists(b)
      /\ \A r \in RunIds : ~DispatchedBy(r, b)

(***************************************************************************)
(* Fair scheduling: a createBatch that has written its row goes on to      *)
(* dispatch, and every task that can take a step eventually takes one (a   *)
(* sampling round that changes nothing is no step).  Calls by clients are  *)
(* not forced.                                                             *)
(***************************************************************************)
TaskStep(r) ==
  \/ \E ok \in BOOLEAN : HandlerRead(r, ok)
  \/ \E ok \in BOOLEAN : Scan(r, ok)
  \/ \E rnd \in [1..runs[r].codeLength -> RandomIdx] : Sample(r, rnd)
  \/ \E ok \in BOOLEAN : Commit(r, ok)
  \/ \E ok \in BOOLEAN : Increment(r, ok)
  \/ \E ok \in BOOLEAN : MarkCompleted(r, ok)
  \/ \E ok \in BOOLEAN : MarkFailed(r, ok)

DispatchStep(b) ==
  \E r \in RunIds, delivered \in BOOLEAN, auth \in BOOLEAN :
    CreateBatchDispatch(b, r, delivered, auth)

FairSpec ==
  /\ Spec
  /\ \A b \in BatchIds : WF_vars(DispatchStep(b))
  /\ \A r \in RunIds : WF_vars(TaskStep(r))

(***************************************************************************)
(* C10.  Every batch row createBatch has written eventually has status     *)
(* completed or failed.                                                    *)
(***************************************************************************)
C10_EventuallyTerminal ==
  \A b \in BatchIds :
    (calls[b].pc = "written") ~> Terminal(stickerBatches[b].status)

(***************************************************************************)
(* C11.  Within one run the chunks are written strictly in sequence: a     *)
(* chunk is committed only when every earlier chunk of the run has been    *)
(* committed and counted, every count step adds the size of the chunk just *)
(* committed to the stored generatedCount, and wherever the run starts a   *)
(* chunk, finalizes or has succeeded, every committed chunk has been       *)
(* counted exactly once (a run that stops on a rejected progress update    *)
(* leaves its last chunk uncounted and writes nothing more).               *)
(***************************************************************************)
BetweenChunks(run) ==
  run.pc \in {"scan", "generate", "commit", "final"} \/ run.result = "success"

C11_Counted ==
  \A r \in RunIds :
    LET run == runs[r]
    IN /\ run.counted <= run.chunks
       /\ run.chunks <= run.counted + 1
       /\ run.pc = "increment" => run.chunks = run.counted + 1
       /\ BetweenChunks(run) =>
            /\ run.chunks = run.counted
            /\ run.added = run.generatedCount
       /\ run.result = "success" => run.added = run.quantity

C11_WriteStep(r) ==
  runs'[r].chunks # runs[r].chunks =>
    /\ runs[r].pc = "commit"
    /\ runs[r].chunks = runs[r].counted
    /\ runs'[r].chunks = runs[r].chunks + 1
    /\ runs'[r].pc = "increment"

C11_CountStep(r) ==
  runs'[r].counted # runs[r].counted =>
    /\ runs[r].pc = "increment"
    /\ runs'[r].counted = runs[r].counted + 1
    /\ stickerBatches'[runs[r].batchId].generatedCount =
         stickerBatches[runs[r].batchId].generatedCount + Len(Chunk(runs[r]))

C12_Stopped ==
  \A r \in RunIds :
    runs[r].commitFailed =>
      /\ runs[r].pc \in {"catch", "ended"}
      /\ runs[r].added = runs[r].generatedCount
      /\ runs[r].writtenAll \subseteq DOMAIN stickerCodes

C12_CatchStep(r) ==
  (runs[r].commitFailed /\ runs'[r] # runs[r]) =>
    /\ runs[r].pc = "catch"
    /\ runs'[r].pc = "ended"
    /\ runs'[r].chunks = runs[r].chunks
    /\ stickerCodes' = stickerCodes
    /\ \/ stickerBatches' = stickerBatches
       \/ /\ Exists(runs[r].batchId)
          /\ stickerBatches' =
               [stickerBatches EXCEPT ![runs[r].batchId].status = "failed"]

C12_FailedCommitStopsRun ==
  /\ []C12_Stopped
  /\ [][\A r \in RunIds : C12_CatchStep(r)]_vars

(***************************************************************************)
(* C12 as stated: the above, and once the run has ended the batch's status *)
(* is failed and its stored generatedCount is the sum of the chunks the    *)
(* run committed.                                                          *)
(***************************************************************************)
C12_Ended ==
  \A r \in RunIds :
    (runs[r].commitFailed /\ runs[r].pc = "ended") =>
      /\ stickerBatches[runs[r].batchId].status = "failed"
      /\ stickerBatches[runs[r].batchId].generatedCount = runs[r].generatedCount

C12_FailedCommitMarksFailed ==
  /\ C12_FailedCommitStopsRun
  /\ []C12_Ended

\* a run ended on the failed commit of its second chunk: the batch is failed
\* and keeps the code row and the count of the first
C12_Witness ==
  \E r \in RunIds :
    /\ runs[r].commitFailed
    /\ runs[r].pc = "ended"
    /\ runs[r].chunks = 1
    /\ stickerBatches[runs[r].batchId].status = "failed"
    /\ stickerBatches[runs[r].batchId].generatedCount = runs[r].generatedCount
    /\ runs[r].writtenAll # {}
    /\ \A c \in runs[r].writtenAll : stickerCodes[c].batchId = runs[r].batchId

(***************************************************************************)
(* C13.  After deleteBatch has returned success for a batch that had       *)
(* codes, the store holds no code row of that batch and no batch row with  *)
(* that id.                                                                *)
(***************************************************************************)
C13_DeletedLeavesNothing ==
  \A d \in DeleteIds :
    LET del == deletions[d]
    IN (del.pc = "returned" /\ del.result.success /\ del.seen # {}) =>
         /\ ~Exists(del.batchId)
         /\ CodesOf(del.batchId) = {}
(***************************************************************************)
(* C14.  deleteBatch called after an earlier deletion of the batch stopped *)
(* with code rows deleted and the batch row still there: unless one of its *)
(* own store operations or its request is rejected, the call returns       *)
(* success, and then the store holds no code row of the batch and no batch *)
(* row.                                                                    *)
(***************************************************************************)
C14_RetryCompletes ==
  \A d \in DeleteIds :
    LET del == deletions[d]
    IN (del.retry /\ del.pc = "returned" /\ ~del.fault) =>
         /\ del.result.success
         /\ ~Exists(del.batchId)
         /\ CodesOf(del.batchId) = {}

(***************************************************************************)
(* C15.  BatchService.deleteBatch on an existing batch goes by what its    *)
(* probe finds: with no code row of the batch in the store it deletes the  *)
(* batch row itself and never calls the callable (the chunked path); with  *)
(* at least one code row it calls the callable.                            *)
(***************************************************************************)
InHandler(del) == del.pc \in {"called", "query", "commit", "delete"}

C15_Path ==
  \A d \in DeleteIds :
    LET del == deletions[d]
    IN del.origin = "client" =>
         /\ (del.pc = "callFn" \/ InHandler(del)) =>
              del.seen # {} /\ del.path = "chunked"
         /\ del.pc = "deleteDoc" => del.seen = {} /\ del.path = "direct"
         /\ del.path = "direct" =>
              /\ del.seen = {}
              /\ del.removed = {}
              /\ del.result.success =>
                   del.result.message = "Batch deleted successfully"
         /\ (del.path = "chunked" /\ del.result.success) =>
              del.result.message
                = "Batch and all associated codes deleted successfully"

C15_ProbeStep(d) ==
  (deletions[d].pc = "probe" /\ deletions'[d].pc \notin {"probe", "returned"}) =>
    /\ CodesOf(deletions[d].batchId) = {} => deletions'[d].pc = "deleteDoc"
    /\ CodesOf(deletions[d].batchId) # {} => deletions'[d].pc = "callFn"

C15_DirectStep(d) ==
  (deletions[d].pc = "deleteDoc" /\ deletions'[d].result.success) =>
    /\ stickerBatches'[deletions[d].batchId] = NoRow
    /\ stickerCodes' = stickerCodes

C15_CallStep(d) ==
  (deletions[d].pc = "callFn" /\ deletions'[d] # deletions[d]) =>
    deletions'[d].pc \in {"called", "returned"}

C15_FastPathOnlyWithoutCodes ==
  /\ []C15_Path
  /\ [][\A d \in DeleteIds :
          C15_ProbeStep(d) /\ C15_DirectStep(d) /\ C15_CallStep(d)]_vars

\* one call went through the callable and deleted code rows, another found
\* no code row and deleted the batch row itself
C15_Witness ==
  \E d1, d2 \in DeleteIds :
    /\ deletions[d1].origin = "client"
    /\ deletions[d1].path = "chunked"
    /\ deletions[d1].removed # {}
    /\ deletions[d2].origin = "client"
    /\ deletions[d2].path = "direct"
    /\ deletions[d2].result.success
    /\ ~Exists(deletions[d2].batchId)

(***************************************************************************)
(* C16.  exportCodes called by an authenticated client for a batch with    *)
(* codes and with a format other than csv or json fails with the error     *)
(* kind invalid-argument and stores no artifact and no audit entry.        *)
(***************************************************************************)
C16_BadFormatInvalidArgument ==
  \A e \in ExportIds :
    LET exp == exports[e]
    IN (exp.pc = "returned" /\ exp.auth /\ exp.codes # <<>>
          /\ exp.format \notin {"csv", "json"}) =>
         /\ exp.error = "invalid-argument"
         /\ bucket[e] = NoFile
         /\ codeExports[e] = NoEntry

(***************************************************************************)
(* C17.  A successful exportCodes holds every code row that carried the    *)
(* batch's id when the handler read them, whatever its status, exactly     *)
(* once, and the codeCount it returns (and records) is the number of those *)
(* rows.                                                                   *)
(***************************************************************************)
Succeeded(exp) == exp.pc = "returned" /\ exp.error = "none"

C17_ExportsEveryCode ==
  \A e \in ExportIds :
    LET exp == exports[e]
    IN Succeeded(exp) =>
         /\ \A c \in DOMAIN exp.snapshot :
              Cardinality({ k \in DOMAIN exp.codes : exp.codes[k].code = c }) = 1
         /\ \A k \in DOMAIN exp.codes :
              /\ exp.codes[k].code \in DOMAIN exp.snapshot
              /\ exp.includeStatus =>
                   exp.codes[k].status = exp.snapshot[exp.codes[k].code].status
         /\ exp.result.codeCount = Cardinality(DOMAIN exp.snapshot)
         /\ codeExports[e].codeCount = Cardinality(DOMAIN exp.snapshot)
         /\ bucket[e].content
              = Render(exp.format, exp.includeStatus, exp.batchId, exp.codes)

C17_QueryStep(e) ==
  (exports[e].pc = "query" /\ exports'[e].codes # <<>>) =>
    DOMAIN exports'[e].snapshot = CodesOf(exports[e].batchId)

C17_ExportComplete ==
  /\ []C17_ExportsEveryCode
  /\ [][\A e \in ExportIds : C17_QueryStep(e)]_vars

\* a successful export with status of a batch with an available, an
\* assigned and a disabled code
C17_Witness ==
  \E e \in ExportIds :
    /\ Succeeded(exports[e])
    /\ exports[e].includeStatus
    /\ exports[e].result.codeCount = 3
    /\ { exports[e].codes[k].status : k \in DOMAIN exports[e].codes }
         = CodeStatuses

(***************************************************************************)
(* C18.  Every code row's batchId is the id of a batch row that exists in  *)
(* the store.                                                              *)
(***************************************************************************)
C18_NoOrphanCode ==
  \A c \in DOMAIN stickerCodes : Exists(stickerCodes[c].batchId)

(***************************************************************************)
(* C19.  Two runs for different batches with the same prefix can both      *)
(* write the same code string: a run tests its candidates against its own  *)
(* scan only, so every code of a chunk it commits is outside that scan     *)
(* whether or not the store holds it by then, nothing reserves the prefix, *)
(* and the commit makes the row a row of the run's own batch, replacing    *)
(* the row another run wrote.  The witness is the state the claim says can *)
(* be reached.                                                             *)
(***************************************************************************)
C19_CommitStep(r) ==
  runs'[r].chunks # runs[r].chunks =>
    \A c \in Range(Chunk(runs[r])) :
      /\ c \notin runs[r].existingCodes
      /\ stickerCodes'[c] = [batchId |-> runs[r].batchId, status |-> "available"]

C19_LaterWriteReplaces ==
  [][\A r \in RunIds : C19_CommitStep(r)]_vars

\* two runs in flight for different batches with one prefix have both
\* written the same code, and its one row belongs to one of the batches
C19_Witness ==
  \E r1, r2 \in RunIds :
    /\ runs[r1].batchId # runs[r2].batchId
    /\ runs[r1].origin = "createBatch"
    /\ runs[r2].origin = "createBatch"
    /\ runs[r1].prefix = runs[r2].prefix
    /\ runs[r1].pc \in {"increment", "scan", "generate", "commit", "final"}
    /\ runs[r2].pc \in {"increment", "scan", "generate", "commit", "final"}
    /\ \E c \in runs[r1].writtenAll \cap runs[r2].writtenAll :
         /\ c \notin runs[r1].firstScan
         /\ c \notin runs[r2].firstScan
         /\ stickerCodes[c].batchId = runs[r2].batchId

(***************************************************************************)
(* C20.  Every code the generator of a run has produced, and every code    *)
(* row the run has written, is the run's prefix followed by exactly        *)
(* codeLength characters of ABCDEFGHJKLMNPQRSTUVWXYZ23456789, so its       *)
(* length is len(prefix) + codeLength.                                     *)
(***************************************************************************)
\* A-Z without I and O, and 2-9
AllowedAlphabet == ((65..90) \ {73, 79}) \cup (50..57)

WellFormed(c, prefix, codeLength) ==
  /\ Len(c) = Len(prefix) + codeLength
  /\ \A k \in 1..Len(prefix) : c[k] = prefix[k]
  /\ \A k \in (Len(prefix) + 1)..Len(c) : c[k] \in AllowedAlphabet

C20_CodeFormat ==
  \A r \in RunIds :
    /\ \A k \in DOMAIN runs[r].codes :
         WellFormed(runs[r].codes[k], runs[r].prefix, runs[r].codeLength)
    /\ \A c \in runs[r].written :
         /\ c \in DOMAIN stickerCodes
         /\ WellFormed(c, stickerBatches[runs[r].batchId].prefix,
                       stickerBatches[runs[r].batchId].codeLength)

\* an offloaded run has written codes with a prefix and a suffix of two
\* characters, the last character of the alphabet among them
C20_Witness ==
  \E r \in RunIds :
    /\ runs[r].kind = "offloaded"
    /\ runs[r].prefix = << 45 >>
    /\ runs[r].codeLength = 2
    /\ \E c \in runs[r].written : c[3] = 57

(***************************************************************************)
(* C21.  The alphabet of the random suffix is a fixed set of exactly 33    *)
(* characters with none of I, O, 0, 1, the same in the inline and the      *)
(* offloaded generator, and every suffix character of a generated code is  *)
(* one of them.                                                            *)
(***************************************************************************)
\* I, O, 0, 1
Ambiguous == {73, 79, 48, 49}

SuffixOf(run, c) == { c[j] : j \in (Len(run.prefix) + 1)..Len(c) }

SuffixChars ==
  UNION { UNION { SuffixOf(runs[r], runs[r].codes[k]) : k \in DOMAIN runs[r].codes }
            : r \in RunIds }

AlphabetOfSize(n) ==
  /\ Len(ALLOWED_CHARS) = n
  /\ Cardinality(Range(ALLOWED_CHARS)) = n
  /\ Range(ALLOWED_CHARS) \cap Ambiguous = {}
  /\ INLINE_ALLOWED_CHARS = ALLOWED_CHARS
  /\ SuffixChars \subseteq Range(ALLOWED_CHARS)
  /\ SuffixChars \cap Ambiguous = {}

C21_Alphabet33 == AlphabetOfSize(33)

(***************************************************************************)
(* C21, amended.  The same with exactly 32 characters: A-Z without I and   *)
(* O, and 2-9.                                                             *)
(***************************************************************************)
C21_Alphabet32 == AlphabetOfSize(32)

\* a run has generated a code whose suffix ends in the last character of
\* the alphabet
C21_Witness ==
  \E r \in RunIds :
    /\ runs[r].codeLength = 2
    /\ \E k \in DOMAIN runs[r].codes :
         runs[r].codes[k][Len(runs[r].codes[k])] = ALLOWED_CHARS[Len(ALLOWED_CHARS)]

(***************************************************************************)
(* C22.  A batch row has a completedAt only if its status is completed: a  *)
(* row that is generating or failed has completedAt unset.                 *)
(***************************************************************************)
C22_CompletedAtOnlyWhenCompleted ==
  \A b \in BatchIds :
    (Exists(b) /\ stickerBatches[b].completedAt # Null) =>
      stickerBatches[b].status = "completed"

C23_Aborted ==
  \A r \in RunIds :
    runs[r].scanFailed =>
      /\ runs[r].pc \in {"catch", "ended"}
      /\ (runs[r].kind = "offloaded" \/ runs[r].chunks = 0) =>
           runs[r].writtenAll = {}

C23_AfterStep(r) ==
  (runs[r].scanFailed /\ runs'[r] # runs[r]) =>
    /\ stickerCodes' = stickerCodes
    /\ runs'[r].writtenAll = runs[r].writtenAll

ChunkSizeOf(run) ==
  IF run.kind = "inline" THEN INLINE_BATCH_SIZE ELSE BATCH_SIZE

RunsOfCreateBatch(b) ==
  { r \in RunIds : runs[r].origin = "createBatch" /\ runs[r].batchId = b }

C24_StrategyByQuantity ==
  \A b \in BatchIds :
    /\ calls[b].pc = "returned" => Cardinality(RunsOfCreateBatch(b)) = 1
    /\ \A r \in RunsOfCreateBatch(b) :
         /\ runs[r].kind = "inline" <=> calls[b].quantity <= INLINE_THRESHOLD
         /\ runs[r].kind = "offloaded" <=> calls[b].quantity > INLINE_THRESHOLD

\* a step that commits a bulk write: the run counts the rows of the chunk
C24_CommitStep(r) ==
  runs'[r].chunks = runs[r].chunks + 1 =>
    LET n == runs'[r].generatedCount - runs[r].generatedCount
    IN /\ n <= ChunkSizeOf(runs[r])
       /\ n = Min(ChunkSizeOf(runs[r]),
                  runs[r].quantity - runs[r].generatedCount)
       /\ Cardinality(runs'[r].writtenAll \ runs[r].writtenAll) <= n

C25_MissingBatchNotFound ==
  \A d \in DeleteIds :
    deletions[d].notFound =>
      /\ deletions[d].pc = "returned"
      /\ deletions[d].removed = {}
      /\ \/ deletions[d].error = "not-found"
         \/ /\ deletions[d].error = "none"
            /\ deletions[d].result = [success |-> FALSE,
                                      message |-> "Batch not found"]

(***************************************************************************)
(* C26.  Every exception raised while a generation run executes takes the  *)
(* run to its catch clause, whose one update sets the status of the batch  *)
(* row to failed; the exception is not returned by createBatch; when the   *)
(* update of the catch clause is rejected, nothing is retried and the      *)
(* batch row is left as it was.                                            *)
(***************************************************************************)
C26_Caught ==
  /\ \A r \in RunIds :
       /\ runs[r].thrown # "none" => runs[r].pc \in {"catch", "ended"}
       /\ runs[r].thrown # "none" /\ runs[r].pc = "ended" =>
            runs[r].marker # "none"
       /\ runs[r].marker # "none" => runs[r].pc = "ended"
  /\ \A b \in BatchIds :
       calls[b].pc = "returned" =>
         /\ calls[b].result = [batchId |-> b, status |-> "generating"]
         /\ calls[b].error = "none"

C26_CatchStep(r) ==
  LET b == runs[r].batchId
  IN /\ (runs[r].pc \notin {"idle", "ended"} /\ runs'[r] # runs[r]) =>
          calls' = calls
     /\ (runs[r].pc = "catch" /\ runs'[r] # runs[r]) =>
          /\ runs'[r].pc = "ended"
          /\ stickerCodes' = stickerCodes
          /\ runs'[r].marker \in {"accepted", "rejected"}
          /\ runs'[r].marker = "accepted" =>
               /\ Exists(b)
               /\ stickerBatches' =
                    [stickerBatches EXCEPT ![b].status = "failed"]
          /\ runs'[r].marker = "rejected" => stickerBatches' = stickerBatches

C26_ExceptionMarksFailed ==
  /\ []C26_Caught
  /\ [][\A r \in RunIds : C26_CatchStep(r)]_vars

\* an inline run whose counter increment was rejected has set the status to
\* failed while createBatch had returned {batchId, status: generating}
C26_Witness ==
  \E r \in RunIds :
    /\ runs[r].kind = "inline"
    /\ runs[r].pc = "ended"
    /\ runs[r].chunks = 1
    /\ runs[r].counted = 0
    /\ runs[r].thrown = "unavailable"
    /\ runs[r].marker = "accepted"
    /\ stickerBatches[runs[r].batchId].status = "failed"
    /\ calls[runs[r].batchId].result =
         [batchId |-> runs[r].batchId, status |-> "generating"]

(***************************************************************************)
(* The generator: two batches under one prefix, with an empty suffix or a  *)
(* suffix of one character out of the first MaxCharIdx, generated by a     *)
(* store that rejects nothing; every outcome of the random source that     *)
(* would be accepted is eventually drawn.                                  *)
(***************************************************************************)
GeneratorLengths == {0, 1}

GeneratorNext ==
  \/ \E b \in BatchIds, l \in GeneratorLengths, q \in Quantities \ {0} :
        CreateBatchWrite(b, <<45>>, l, q, TRUE)
  \/ \E b \in BatchIds, r \in RunIds : CreateBatchDispatch(b, r, TRUE, TRUE)
  \/ \E r \in RunIds : HandlerRead(r, TRUE)
  \/ \E r \in RunIds : Scan(r, TRUE)
  \/ \E r \in RunIds : \E rnd \in [1..runs[r].codeLength -> RandomIdx] :
        Sample(r, rnd)
  \/ \E r \in RunIds : Commit(r, TRUE)
  \/ \E r \in RunIds : Increment(r, TRUE)
  \/ \E r \in RunIds : MarkCompleted(r, TRUE)

GeneratorSpec == Init /\ [][GeneratorNext]_vars

SampleOf(r, l, rnd) == runs[r].codeLength = l /\ Sample(r, rnd)

GeneratorFairSpec ==
  /\ GeneratorSpec
  /\ \A r \in RunIds, l \in GeneratorLengths :
       \A rnd \in [1..l -> RandomIdx] : WF_vars(SampleOf(r, l, rnd))

(***************************************************************************)
(* C27.  The generator returns exactly count distinct codes, none of them  *)
(* in the scanned set; it returns whenever at least count strings          *)
(* prefix + suffix are outside the scanned set and every suffix keeps      *)
(* being drawn; with fewer than count such strings it never returns.       *)
(***************************************************************************)
\* the strings prefix + suffix the random source can produce for the run
Universe(run) ==
  { run.prefix \o generateRandomString(run.codeLength, rnd) :
      rnd \in [1..run.codeLength -> RandomIdx] }

FreeStrings(run) == Universe(run) \ run.existingCodes

Generating(r) == runs[r].kind # "none" /\ runs[r].pc = "generate"

\* the generator has returned and its codes are about to be written
C27_Returned ==
  \A r \in RunIds :
    (runs[r].pc = "commit" /\ (runs[r].kind = "inline" \/ runs[r].i = 0)) =>
      /\ Len(runs[r].codes) = runs[r].count
      /\ Cardinality(Range(runs[r].codes)) = runs[r].count
      /\ Range(runs[r].codes) \subseteq FreeStrings(runs[r])

C27_StuckStep(r) ==
  (Generating(r) /\ Cardinality(FreeStrings(runs[r])) < runs[r].count) =>
    /\ runs'[r].pc = "generate"
    /\ Len(runs'[r].codes) < runs[r].count

C27_Generator ==
  /\ []C27_Returned
  /\ [][\A r \in RunIds : C27_StuckStep(r)]_vars
  /\ \A r \in RunIds :
       (Generating(r) /\ Cardinality(FreeStrings(runs[r])) >= runs[r].count)
         ~> ~Generating(r)

\* one generator has returned codes that avoid a scanned set that is not
\* empty, another one is in its loop with fewer free strings than its count
C27_Witness ==
  \E r, q \in RunIds :
    /\ runs[r].pc = "commit"
    /\ runs[r].existingCodes \cap Universe(runs[r]) # {}
    /\ Len(runs[r].codes) = runs[r].count
    /\ Generating(q)
    /\ runs[q].existingCodes # {}
    /\ Cardinality(FreeStrings(runs[q])) < runs[q].count

(***************************************************************************)
(* C28.  Once the batch row of a generation run has been deleted, no step  *)
(* re-creates it: the counter increment, the completed update and the      *)
(* failed update of the run against the missing row leave the batch store  *)
(* without that id.                                                        *)
(***************************************************************************)
Deleted(b) == calls[b].pc = "returned" /\ ~Exists(b)

C28_RunStep(r) ==
  LET b == runs[r].batchId
  IN (b \in BatchIds /\ Deleted(b) /\ runs'[r] # runs[r]) =>
       stickerBatches' = stickerBatches

C28_DeletedStaysDeleted ==
  [][/\ \A b \in BatchIds : Deleted(b) => ~Exists(b)'
     /\ \A r \in RunIds : C28_RunStep(r)]_vars

\* a run whose batch row was deleted after its first chunk has ended: its
\* counter increment and its failed update were rejected, the row is absent
C28_Witness ==
  \E r \in RunIds :
    /\ runs[r].pc = "ended"
    /\ runs[r].chunks = 1
    /\ runs[r].counted = 0
    /\ runs[r].thrown = "not-found"
    /\ runs[r].marker = "rejected"
    /\ Deleted(runs[r].batchId)

(***************************************************************************)
(* Listing: BatchService.getBatches and BatchService.getCodesFromBatch,    *)
(* called page after page by a caller that passes each lastDoc as the next *)
(* startAfterDoc, on a collection that does not change.                    *)
(***************************************************************************)
\* the order of the query: orderBy('createdAt', 'desc') and then the
\* document id in the same direction for batches, the document id for codes
Before(p, a, b) ==
  IF p.kind = "batches"
    THEN \/ p.docs[a].createdAt > p.docs[b].createdAt
         \/ p.docs[a].createdAt = p.docs[b].createdAt /\ a > b
    ELSE a < b

\* the where clauses: an absent (falsy) status applies no filter
Matches(p, i) ==
  /\ p.kind = "codes" => p.docs[i].batchId = p.batchId
  /\ p.status # Null => p.docs[i].status = p.status

Matching(p) == { i \in DOMAIN p.docs : Matches(p, i) }

\* the documents of S in the order of the query
Ordered(p, S) ==
  [ k \in 1..Cardinality(S) |->
      CHOOSE c \in S : Cardinality({ d \in S : Before(p, d, c) }) = k - 1 ]

\* startAfter(startAfterDoc), applied only when a cursor is given
AfterCursor(p) ==
  { i \in Matching(p) : p.startAfterDoc # NoId => Before(p, p.startAfterDoc, i) }

\* getDocs(query(..., limit(pageSize + 1)))
Snapshot(p) == Slice(Ordered(p, AfterCursor(p)), 0, p.pageSize + 1)

\* snapshot.docs.indexOf(doc) for the k-th document handed to the callback
\* of snapshot.forEach: its position when the snapshot hands out the same
\* objects in both, -1 when docs holds objects built anew (indexOf compares
\* by identity)
IndexOf(same, k) == IF same THEN k - 1 ELSE 0 - 1

\* the documents the forEach pushes to the result: index < pageSize
PageOf(p, same) ==
  LET snapshot == Snapshot(p)
      kept == { k \in DOMAIN snapshot : IndexOf(same, k) < p.pageSize }
  IN [ k \in 1..Cardinality(kept) |-> snapshot[k] ]

\* snapshot.docs[Math.min(snapshot.size - 1, pageSize - 1)] or null
LastDocOf(p) ==
  LET snapshot == Snapshot(p)
  IN IF Len(snapshot) > 0
       THEN snapshot[Min(Len(snapshot) - 1, p.pageSize - 1) + 1]
       ELSE NoId

\* a caller starts to page through a collection
StartPaging(kind, docs, pageSize, status, batchId) ==
  /\ paging.pc = "idle"
  /\ paging' = [IdlePaging EXCEPT !.pc = "call", !.kind = kind, !.docs = docs,
                                  !.pageSize = pageSize, !.status = status,
                                  !.batchId = batchId]
  /\ UNCHANGED << engineVars, adminUsers, authUsers, logins >>

\* one call of getBatches / getCodesFromBatch; a rejected getDocs is caught
\* and answered with an empty page, hasMore false and lastDoc null
GetPage(ok, same) ==
  /\ paging.pc = "call"
  /\ paging' =
       IF ok
         THEN [paging EXCEPT !.pc = "returned",
                             !.page = PageOf(paging, same),
                             !.hasMore = Len(Snapshot(paging)) > paging.pageSize,
                             !.lastDoc = LastDocOf(paging),
                             !.all = @ \o PageOf(paging, same)]
         ELSE [paging EXCEPT !.pc = "returned", !.page = << >>,
                             !.hasMore = FALSE, !.lastDoc = NoId,
                             !.rejected = TRUE]
  /\ UNCHANGED << engineVars, adminUsers, authUsers, logins >>

\* the caller asks for the next page: lastDoc becomes startAfterDoc
LoadMore ==
  /\ paging.pc = "returned"
  /\ paging.hasMore
  /\ paging' = [paging EXCEPT !.pc = "call", !.startAfterDoc = paging.lastDoc]
  /\ UNCHANGED << engineVars, adminUsers, authUsers, logins >>

PagingNext ==
  \/ \E docs \in Collections(BatchFields), n \in PageSizes,
        st \in StatusFilters("batches") :
        StartPaging("batches", docs, n, st, NoId)
  \/ \E docs \in Collections(CodeFields), n \in PageSizes,
        st \in StatusFilters("codes"), b \in {1, 2} :
        StartPaging("codes", docs, n, st, b)
  \/ \E ok \in BOOLEAN, same \in BOOLEAN : GetPage(ok, same)
  \/ LoadMore

PagingSpec == Init /\ [][PagingNext]_vars

(***************************************************************************)
(* C29.  Paging through getBatches or getCodesFromBatch on an unchanged    *)
(* collection until hasMore is false returns every matching record exactly *)
(* once; each page holds at most pageSize records, hasMore is true exactly *)
(* when a matching record lies after the page, and lastDoc is the last     *)
(* record of the page.                                                     *)
(***************************************************************************)
\* the matching records behind the page of the last call
BehindPage(p) ==
  IF p.page = << >> THEN AfterCursor(p)
  ELSE { i \in Matching(p) : Before(p, p.page[Len(p.page)], i) }

C29_PagingExactlyOnce ==
  paging.pc = "returned" =>
    /\ Len(paging.page) <= paging.pageSize
    /\ paging.hasMore <=> BehindPage(paging) # {}
    /\ paging.lastDoc = IF paging.page = << >> THEN NoId
                        ELSE paging.page[Len(paging.page)]
    /\ ~paging.hasMore => paging.all = Ordered(paging, Matching(paging))

(***************************************************************************)
(* Login: the callable handleLoginAttempt({email, success: false}) for the *)
(* email of an existing account, with no successful login and no unlock;   *)
(* a lock, once set, has not expired.                                      *)
(***************************************************************************)
\* if (attempts >= 5)
MAX_FAILED_ATTEMPTS == 5
LockExpiry == "lockExpiry"

\* userData.accountLockedUntil?.toDate() > now
LockActive == adminUsers.accountLockedUntil # Null

\* the result of a call: an error caught and answered with the generic
\* message, the locked answer, or the answer with the attempts remaining
LoginReturned(login, result) == [login EXCEPT !.pc = "returned", !.result = result]

\* a client reports a failed login
LoginCall(l) ==
  /\ logins[l].pc = "idle"
  /\ l > 1 => logins[l - 1].pc # "idle"
  /\ logins' = [logins EXCEPT ![l].pc = "read"]
  /\ UNCHANGED << engineVars, paging, adminUsers, authUsers >>

\* getUserByEmail and ref.get(), the test of the lock and the new count
LoginRead(l, ok) ==
  /\ logins[l].pc = "read"
  /\ logins' = [logins EXCEPT ![l] =
       IF ~ok THEN LoginReturned(@, "error")
       ELSE IF LockActive
              THEN [LoginReturned(@, "locked") EXCEPT !.sawLock = TRUE]
       ELSE [@ EXCEPT !.pc = "update",
                      !.attempts = adminUsers.failedLoginAttempts + 1]]
  /\ UNCHANGED << engineVars, paging, adminUsers, authUsers >>

\* ref.update(payload), with accountLockedUntil when attempts >= 5
LoginUpdate(l, ok) ==
  /\ logins[l].pc = "update"
  /\ LET attempts == logins[l].attempts
     IN IF ok
          THEN /\ adminUsers' =
                    [failedLoginAttempts |-> attempts,
                     accountLockedUntil |->
                       IF attempts >= MAX_FAILED_ATTEMPTS THEN LockExpiry
                       ELSE adminUsers.accountLockedUntil]
               /\ logins' = [logins EXCEPT ![l] =
                    IF attempts >= MAX_FAILED_ATTEMPTS
                      THEN [@ EXCEPT !.pc = "disable"]
                      ELSE LoginReturned(@, "recorded")]
          ELSE /\ adminUsers' = adminUsers
               /\ logins' = [logins EXCEPT ![l] = LoginReturned(@, "error")]
  /\ UNCHANGED << engineVars, paging, authUsers >>

\* admin.auth().updateUser(user.uid, {disabled: true})
LoginDisable(l, ok) ==
  /\ logins[l].pc = "disable"
  /\ authUsers' = [disabled |-> authUsers.disabled \/ ok]
  /\ logins' = [logins EXCEPT ![l] =
       LoginReturned(@, IF ok THEN "locked" ELSE "error")]
  /\ UNCHANGED << engineVars, paging, adminUsers >>

LockoutNext ==
  \/ \E l \in LoginIds : LoginCall(l)
  \/ \E l \in LoginIds, ok \in BOOLEAN : LoginRead(l, ok)
  \/ \E l \in LoginIds, ok \in BOOLEAN : LoginUpdate(l, ok)
  \/ \E l \in LoginIds, ok \in BOOLEAN : LoginDisable(l, ok)

LockoutSpec == Init /\ [][LockoutNext]_vars

(***************************************************************************)
(* C30.  The account is locked after 5 failed login attempts: once 5 calls *)
(* of handleLoginAttempt with success = false, overlapping or not, have    *)
(* completed without an error of the store, accountLockedUntil is set and  *)
(* the Auth user is disabled.                                              *)
(***************************************************************************)
Answered == { l \in LoginIds : logins[l].pc = "returned" /\ logins[l].result # "error" }

C30_LockedAfterFiveAttempts ==
  Cardinality(Answered) >= MAX_FAILED_ATTEMPTS =>
    /\ adminUsers.accountLockedUntil # Null
    /\ authUsers.disabled

====
